---- MODULE Spec2Model ----
(***************************************************************************)
(* Background-removal API (rembg-api): the image processing service        *)
(* (app/services/image_processor.py), the request schema                   *)
(* (app/models/schemas.py) and the two HTTP handlers                       *)
(* (app/routers/background.py).                                            *)
(*                                                                         *)
(* Text is modelled as a sequence of string tokens, so that an f-string    *)
(* is the concatenation of its literal parts and of the printed values.    *)
(* Python's None is the token sequence << >> for a message and the format  *)
(* tag "None" for Image.format.  The accents of the French messages are    *)
(* dropped.                                                                *)
(*                                                                         *)
(* Spec is the HTTP layer serving requests; SpecValidate is validate_image *)
(* alone over a grid of sizes and formats; SpecConcurrent is the HTTP      *)
(* layer with several requests in flight, on a smaller set of requests.    *)
(* A request slot has about 145 reachable states in Spec and 41 in         *)
(* SpecConcurrent; both grow as that number to the power of the slots.     *)
(***************************************************************************)
EXTENDS Integers, Sequences, FiniteSets, TLC

\* Number of request slots the HTTP layer serves concurrently.
NumRequests == 1

Requests == 1..NumRequests

\* Number of requests in flight at once in SpecConcurrent.
NumConcurrent == 2

Concurrent == 1..NumConcurrent

(***************************************************************************)
(* ImageProcessingService: configuration                                   *)
(***************************************************************************)
SUPPORTED_FORMATS == {"PNG", "JPEG", "JPG", "WEBP", "BMP"}

MAX_IMAGE_SIZE == 4096 * 4096

\* str(SUPPORTED_FORMATS) as the f-string prints it.
SUPPORTED_FORMATS_str == "{'PNG', 'JPEG', 'JPG', 'WEBP', 'BMP'}"

NoneFormat == "None"

None == << >>

(***************************************************************************)
(* Images: width, height and the format tag PIL reports (NoneFormat when   *)
(* the image was not read from a file).                                    *)
(***************************************************************************)
SmallDims == {1, 5, 9, 10, 11, 100}

MidDims == {4095, 4096, 4097}

\* The shortest side that pushes a 9-pixel-wide image over MAX_IMAGE_SIZE.
LongSide == (MAX_IMAGE_SIZE \div 9) + 1

Sizes ==
    ((SmallDims \cup MidDims) \X (SmallDims \cup MidDims))
        \cup (SmallDims \X {LongSide}) \cup ({LongSide} \X SmallDims)

Formats == SUPPORTED_FORMATS \cup {"GIF", "TIFF", NoneFormat}

Images == {[width |-> s[1], height |-> s[2], format |-> f] : s \in Sizes, f \in Formats}

NoImage == [width |-> 0, height |-> 0, format |-> NoneFormat]

(***************************************************************************)
(* ImageProcessingService.validate_image                                   *)
(***************************************************************************)
\* validate_image with the size test made inclusive.
validate_image_ge(image) ==
    IF image.format # NoneFormat /\ image.format \notin SUPPORTED_FORMATS
    THEN [is_valid |-> FALSE,
          error_msg |-> <<"Format ", image.format, " non supporte. Formats acceptes : ",
                          SUPPORTED_FORMATS_str>>]
    ELSE LET width == image.width
             height == image.height
         IN IF width * height >= MAX_IMAGE_SIZE
            THEN [is_valid |-> FALSE,
                  error_msg |-> <<"Image trop grande (", ToString(width), "x", ToString(height),
                                  "). Maximum : ", ToString(MAX_IMAGE_SIZE), " pixels">>]
            ELSE IF width < 10 \/ height < 10
                 THEN [is_valid |-> FALSE,
                       error_msg |-> <<"Image trop petite (minimum 10x10 pixels)">>]
                 ELSE [is_valid |-> TRUE, error_msg |-> None]

\* validate_image rejecting a small image only when both sides are small.
validate_image_and(image) ==
    IF image.format # NoneFormat /\ image.format \notin SUPPORTED_FORMATS
    THEN [is_valid |-> FALSE,
          error_msg |-> <<"Format ", image.format, " non supporte. Formats acceptes : ",
                          SUPPORTED_FORMATS_str>>]
    ELSE LET width == image.width
             height == image.height
         IN IF width * height > MAX_IMAGE_SIZE
            THEN [is_valid |-> FALSE,
                  error_msg |-> <<"Image trop grande (", ToString(width), "x", ToString(height),
                                  "). Maximum : ", ToString(MAX_IMAGE_SIZE), " pixels">>]
            ELSE IF width < 10 /\ height < 10
                 THEN [is_valid |-> FALSE,
                       error_msg |-> <<"Image trop petite (minimum 10x10 pixels)">>]
                 ELSE [is_valid |-> TRUE, error_msg |-> None]

\* validate_image whose "too large" message prints the width twice.
validate_image_msg(image) ==
    IF image.format # NoneFormat /\ image.format \notin SUPPORTED_FORMATS
    THEN [is_valid |-> FALSE,
          error_msg |-> <<"Format ", image.format, " non supporte. Formats acceptes : ",
                          SUPPORTED_FORMATS_str>>]
    ELSE LET width == image.width
             height == image.height
         IN IF width * height > MAX_IMAGE_SIZE
            THEN [is_valid |-> FALSE,
                  error_msg |-> <<"Image trop grande (", ToString(width), "x", ToString(width),
                                  "). Maximum : ", ToString(MAX_IMAGE_SIZE), " pixels">>]
            ELSE IF width < 10 \/ height < 10
                 THEN [is_valid |-> FALSE,
                       error_msg |-> <<"Image trop petite (minimum 10x10 pixels)">>]
                 ELSE [is_valid |-> TRUE, error_msg |-> None]

validate_image(image) ==
    IF image.format # NoneFormat /\ image.format \notin SUPPORTED_FORMATS
    THEN [is_valid |-> FALSE,
          error_msg |-> <<"Format ", image.format, " non supporte. Formats acceptes : ",
                          SUPPORTED_FORMATS_str>>]
    ELSE LET width == image.width
             height == image.height
         IN IF width * height > MAX_IMAGE_SIZE
            THEN [is_valid |-> FALSE,
                  error_msg |-> <<"Image trop grande (", ToString(width), "x", ToString(height),
                                  "). Maximum : ", ToString(MAX_IMAGE_SIZE), " pixels">>]
            ELSE IF width < 10 \/ height < 10
                 THEN [is_valid |-> FALSE,
                       error_msg |-> <<"Image trop petite (minimum 10x10 pixels)">>]
                 ELSE [is_valid |-> TRUE, error_msg |-> None]

(***************************************************************************)
(* Exceptions: the class that was raised and str(e).  ValueErrorClasses    *)
(* are ValueError and its subclasses (binascii.Error is one); every class  *)
(* here derives from Exception, HTTPException included.                    *)
(***************************************************************************)
NoExc == [cls |-> "None", msg |-> None]

ValueErrorClasses == {"ValueError", "binascii.Error"}

(***************************************************************************)
(* Byte strings and text.  A value is what it encodes (an image file of a  *)
(* format and size, or something that is no image) together with its       *)
(* encoding: "raw" bytes, "base64" text of these bytes, or "malformed"     *)
(* text that base64.b64decode rejects.                                     *)
(***************************************************************************)
NoData == [encoding |-> "none", kind |-> "none", format |-> NoneFormat, width |-> 0, height |-> 0]

GarbageBytes ==
    [encoding |-> "raw", kind |-> "garbage", format |-> NoneFormat, width |-> 0, height |-> 0]

MalformedText ==
    [encoding |-> "malformed", kind |-> "garbage", format |-> NoneFormat, width |-> 0, height |-> 0]

\* image.save(buffer, format=format); buffer.getvalue()
image_save(img, format) ==
    [encoding |-> "raw", kind |-> "image", format |-> format,
     width |-> img.width, height |-> img.height]

b64encode(bytes) == [bytes EXCEPT !.encoding = "base64"]

b64decode(text) ==
    IF text.encoding = "base64"
    THEN [ok |-> TRUE, bytes |-> [text EXCEPT !.encoding = "raw"], exc |-> NoExc]
    ELSE [ok |-> FALSE, bytes |-> NoData,
          exc |-> [cls |-> "binascii.Error", msg |-> <<"Incorrect padding">>]]

\* Image.open(io.BytesIO(bytes)): PIL.UnidentifiedImageError is an OSError.
Image_open(bytes) ==
    IF bytes.kind = "image"
    THEN [ok |-> TRUE,
          image |-> [width |-> bytes.width, height |-> bytes.height, format |-> bytes.format],
          exc |-> NoExc]
    ELSE [ok |-> FALSE, image |-> NoImage,
          exc |-> [cls |-> "UnidentifiedImageError", msg |-> <<"cannot identify image file">>]]

(***************************************************************************)
(* rembg.remove: the external model.  What it does on a call is not the    *)
(* program's choice: it returns a new image of the same size, or raises.   *)
(***************************************************************************)
ModelBehaviours ==
    {[raises |-> FALSE, exc |-> NoExc]}
        \cup {[raises |-> TRUE, exc |-> [cls |-> c, msg |-> <<"model failure">>]] :
                 c \in {"ValueError", "RuntimeError"}}

remove(call, behaviour) ==
    IF behaviour.raises
    THEN [ok |-> FALSE, image |-> NoImage, exc |-> behaviour.exc]
    ELSE [ok |-> TRUE,
          image |-> [width |-> call.image.width, height |-> call.image.height,
                     format |-> NoneFormat],
          exc |-> NoExc]

\* time.time() - start_time, in tenths of a millisecond.
Durations == {4, 16}

(***************************************************************************)
(* ImageProcessingService.remove_background                                *)
(***************************************************************************)
\* The arguments of the call to remove: flags are the keywords passed as True,
\* params the keywords passed with a number.
remove_call_erode(input_image, post_process) ==
    IF post_process
    THEN [image |-> input_image, flags |-> {"alpha_matting"},
          params |-> {<<"alpha_matting_foreground_threshold", 240>>,
                      <<"alpha_matting_background_threshold", 10>>,
                      <<"alpha_matting_erode_size", 15>>}]
    ELSE [image |-> input_image, flags |-> {}, params |-> {}]

remove_call(input_image, post_process) ==
    IF post_process
    THEN [image |-> input_image, flags |-> {"alpha_matting"},
          params |-> {<<"alpha_matting_foreground_threshold", 240>>,
                      <<"alpha_matting_background_threshold", 10>>,
                      <<"alpha_matting_erode_size", 10>>}]
    ELSE [image |-> input_image, flags |-> {}, params |-> {}]

\* remove_background re-raising the model's exception as it is.
remove_background_reraise(input_image, post_process, behaviour, elapsed) ==
    LET v == validate_image(input_image) IN
    IF ~v.is_valid
    THEN [ok |-> FALSE, output_image |-> NoImage, processing_time |-> 0,
          exc |-> [cls |-> "ValueError", msg |-> v.error_msg],
          model_exc |-> NoExc, calls |-> << >>, events |-> <<"validate_image">>]
    ELSE LET call == remove_call(input_image, post_process)
             out == remove(call, behaviour)
         IN IF out.ok
            THEN [ok |-> TRUE, output_image |-> out.image, processing_time |-> elapsed,
                  exc |-> NoExc, model_exc |-> NoExc, calls |-> <<call>>,
                  events |-> <<"validate_image", "time.time", "remove", "time.time">>]
            ELSE [ok |-> FALSE, output_image |-> NoImage, processing_time |-> 0,
                  exc |-> out.exc,
                  model_exc |-> out.exc, calls |-> <<call>>,
                  events |-> <<"validate_image", "time.time", "remove">>]

\* remove_background calling the model a second time, with default
\* parameters, when the first call raised.
remove_background_retry(input_image, post_process, behaviour, elapsed) ==
    LET v == validate_image(input_image) IN
    IF ~v.is_valid
    THEN [ok |-> FALSE, output_image |-> NoImage, processing_time |-> 0,
          exc |-> [cls |-> "ValueError", msg |-> v.error_msg],
          model_exc |-> NoExc, calls |-> << >>, events |-> <<"validate_image">>]
    ELSE LET call == remove_call(input_image, post_process)
             out == remove(call, behaviour)
             again == remove_call(input_image, FALSE)
         IN IF out.ok
            THEN [ok |-> TRUE, output_image |-> out.image, processing_time |-> elapsed,
                  exc |-> NoExc, model_exc |-> NoExc, calls |-> <<call>>,
                  events |-> <<"validate_image", "time.time", "remove", "time.time">>]
            ELSE [ok |-> FALSE, output_image |-> NoImage, processing_time |-> 0,
                  exc |-> [cls |-> "Exception",
                           msg |-> <<"Echec du traitement d'image : ">> \o out.exc.msg],
                  model_exc |-> out.exc, calls |-> <<call, again>>,
                  events |-> <<"validate_image", "time.time", "remove", "remove">>]

\* remove_background validating only after the model has returned.
remove_background_late(input_image, post_process, behaviour, elapsed) ==
    LET v == validate_image(input_image)
        call == remove_call(input_image, post_process)
        out == remove(call, behaviour)
    IN IF ~out.ok
       THEN [ok |-> FALSE, output_image |-> NoImage, processing_time |-> 0,
             exc |-> [cls |-> "Exception",
                      msg |-> <<"Echec du traitement d'image : ">> \o out.exc.msg],
             model_exc |-> out.exc, calls |-> <<call>>,
             events |-> <<"time.time", "remove">>]
       ELSE IF ~v.is_valid
            THEN [ok |-> FALSE, output_image |-> NoImage, processing_time |-> 0,
                  exc |-> [cls |-> "ValueError", msg |-> v.error_msg],
                  model_exc |-> NoExc, calls |-> <<call>>,
                  events |-> <<"time.time", "remove", "time.time", "validate_image">>]
            ELSE [ok |-> TRUE, output_image |-> out.image, processing_time |-> elapsed,
                  exc |-> NoExc, model_exc |-> NoExc, calls |-> <<call>>,
                  events |-> <<"time.time", "remove", "time.time", "validate_image">>]

\* remove_background reading the clock for start_time on entry, before the
\* validation.
remove_background_early_timer(input_image, post_process, behaviour, elapsed) ==
    LET v == validate_image(input_image) IN
    IF ~v.is_valid
    THEN [ok |-> FALSE, output_image |-> NoImage, processing_time |-> 0,
          exc |-> [cls |-> "ValueError", msg |-> v.error_msg],
          model_exc |-> NoExc, calls |-> << >>, events |-> <<"time.time", "validate_image">>]
    ELSE LET call == remove_call(input_image, post_process)
             out == remove(call, behaviour)
         IN IF out.ok
            THEN [ok |-> TRUE, output_image |-> out.image, processing_time |-> elapsed,
                  exc |-> NoExc, model_exc |-> NoExc, calls |-> <<call>>,
                  events |-> <<"time.time", "validate_image", "remove", "time.time">>]
            ELSE [ok |-> FALSE, output_image |-> NoImage, processing_time |-> 0,
                  exc |-> [cls |-> "Exception",
                           msg |-> <<"Echec du traitement d'image : ">> \o out.exc.msg],
                  model_exc |-> out.exc, calls |-> <<call>>,
                  events |-> <<"time.time", "validate_image", "remove">>]

\* ok: the pair (output_image, processing_time) is returned; otherwise exc is
\* raised.  model_exc: what the call to remove raised, if it did.  calls: the
\* calls to remove, in order.  events: the order of the validation, the two
\* clock readings and the model call.
remove_background(input_image, post_process, behaviour, elapsed) ==
    LET v == validate_image(input_image) IN
    IF ~v.is_valid
    THEN [ok |-> FALSE, output_image |-> NoImage, processing_time |-> 0,
          exc |-> [cls |-> "ValueError", msg |-> v.error_msg],
          model_exc |-> NoExc, calls |-> << >>, events |-> <<"validate_image">>]
    ELSE LET call == remove_call(input_image, post_process)
             out == remove(call, behaviour)
         IN IF out.ok
            THEN [ok |-> TRUE, output_image |-> out.image, processing_time |-> elapsed,
                  exc |-> NoExc, model_exc |-> NoExc, calls |-> <<call>>,
                  events |-> <<"validate_image", "time.time", "remove", "time.time">>]
            ELSE [ok |-> FALSE, output_image |-> NoImage, processing_time |-> 0,
                  exc |-> [cls |-> "Exception",
                           msg |-> <<"Echec du traitement d'image : ">> \o out.exc.msg],
                  model_exc |-> out.exc, calls |-> <<call>>,
                  events |-> <<"validate_image", "time.time", "remove">>]

(***************************************************************************)
(* ImageProcessingService: conversions                                     *)
(***************************************************************************)
image_to_base64(img, format) == b64encode(image_save(img, format))

image_to_bytes(img, format) == image_save(img, format)

base64_to_image(base64_string) ==
    LET dec == b64decode(base64_string)
        opened == Image_open(dec.bytes)
    IN IF ~dec.ok
       THEN [ok |-> FALSE, image |-> NoImage,
             exc |-> [cls |-> "ValueError",
                      msg |-> <<"Impossible de convertir le base64 en image : ">> \o dec.exc.msg]]
       ELSE IF ~opened.ok
            THEN [ok |-> FALSE, image |-> NoImage,
                  exc |-> [cls |-> "ValueError",
                           msg |-> <<"Impossible de convertir le base64 en image : ">>
                                       \o opened.exc.msg]]
            ELSE [ok |-> TRUE, image |-> opened.image, exc |-> NoExc]

(***************************************************************************)
(* Request schema (ImageProcessRequest) and what the clients send          *)
(***************************************************************************)
\* Image files a client may hold: too small, valid, of an unsupported format
\* and too large.  An image read from a file always has a format tag.
UploadedImages ==
    {[width |-> 5, height |-> 5, format |-> "PNG"],
     [width |-> 100, height |-> 100, format |-> "PNG"],
     [width |-> 100, height |-> 100, format |-> "GIF"],
     [width |-> 4097, height |-> 4097, format |-> "JPEG"]}

FileContents == {GarbageBytes} \cup {image_save(i, i.format) : i \in UploadedImages}

\* Text with characters outside the base64 alphabet is not MalformedText:
\* b64decode drops them and yields bytes that are no image.
Base64Texts == {MalformedText} \cup {b64encode(b) : b \in FileContents}

\* Requests as sent: an optional field that the client left out is "absent".
Base64WireRequests ==
    [endpoint : {"remove-background"},
     payload : Base64Texts,
     output_format : {"absent", "base64", "binary", "url"},
     post_process : {"absent", "true", "false"}]

FileWireRequests ==
    [endpoint : {"remove-background-file"},
     payload : FileContents,
     output_format : {"absent"},
     post_process : {"absent", "true", "false"}]

NoRequest ==
    [endpoint |-> "none", payload |-> NoData, output_format |-> "absent",
     post_process |-> "absent"]

\* The default of a bool field or parameter declared with default False.
post_process_field(sent) == IF sent = "absent" THEN FALSE ELSE sent = "true"

\* OutputFormat, with the default OutputFormat.BASE64.
output_format_field(sent) == IF sent = "absent" THEN "base64" ELSE sent

\* ImageProcessRequest(**body): the fields with their defaults; validate_base64
\* raises when base64.b64decode does, and the request is then rejected before
\* the handler runs.
ImageProcessRequest(wire) ==
    [ok |-> b64decode(wire.payload).ok,
     image_base64 |-> wire.payload,
     output_format |-> output_format_field(wire.output_format),
     post_process |-> post_process_field(wire.post_process)]

(***************************************************************************)
(* Responses                                                               *)
(***************************************************************************)
HTTP_200_OK == 200

HTTP_400_BAD_REQUEST == 400

HTTP_500_INTERNAL_SERVER_ERROR == 500

HTTP_501_NOT_IMPLEMENTED == 501

NoResponse ==
    [status |-> 0, success |-> FALSE, output_format |-> "none", body |-> NoData,
     processing_time |-> << >>, original_size |-> <<0, 0>>, detail |-> None]

\* The response FastAPI sends for a raised HTTPException(status_code, detail).
HTTPException(status_code, detail) ==
    [status |-> status_code, success |-> FALSE, output_format |-> "none", body |-> NoData,
     processing_time |-> << >>, original_size |-> <<0, 0>>, detail |-> detail]

\* round(processing_time, 3): tenths of a millisecond to milliseconds, ties
\* to the even digit.
round_3(t) ==
    LET q == t \div 10
        r == t % 10
    IN IF r > 5 \/ (r = 5 /\ q % 2 = 1) THEN q + 1 ELSE q

(***************************************************************************)
(* POST /api/v1/remove-background                                          *)
(***************************************************************************)
\* The two except clauses of the handler, applied to whatever the try block
\* raised: the first clause that matches the exception's class wins.
base64_except(exc) ==
    IF exc.cls \in ValueErrorClasses
    THEN HTTPException(HTTP_400_BAD_REQUEST, exc.msg)
    ELSE HTTPException(HTTP_500_INTERNAL_SERVER_ERROR,
                       <<"Erreur lors du traitement de l'image : ">> \o exc.msg)

\* The branch on request.output_format with BINARY returning the raw bytes.
image_data_for_binary(output_format, output_image) ==
    IF output_format = "base64"
    THEN [ok |-> TRUE, image_data |-> image_to_base64(output_image, "PNG"), exc |-> NoExc]
    ELSE IF output_format = "url"
         THEN [ok |-> FALSE, image_data |-> NoData,
               exc |-> [cls |-> "HTTPException",
                        msg |-> <<ToString(HTTP_501_NOT_IMPLEMENTED), ": ",
                                  "Le format 'url' n'est pas encore implemente. Utilisez 'base64' ou 'binary'.">>]]
         ELSE [ok |-> TRUE, image_data |-> image_to_bytes(output_image, "PNG"), exc |-> NoExc]

\* The branch on request.output_format: the image data of the response, or
\* the HTTPException raised for URL (inside the try block; str(e) of an
\* HTTPException is "<status_code>: <detail>").
image_data_for(output_format, output_image) ==
    IF output_format = "base64"
    THEN [ok |-> TRUE, image_data |-> image_to_base64(output_image, "PNG"), exc |-> NoExc]
    ELSE IF output_format = "url"
         THEN [ok |-> FALSE, image_data |-> NoData,
               exc |-> [cls |-> "HTTPException",
                        msg |-> <<ToString(HTTP_501_NOT_IMPLEMENTED), ": ",
                                  "Le format 'url' n'est pas encore implemente. Utilisez 'base64' ou 'binary'.">>]]
         ELSE [ok |-> TRUE, image_data |-> image_to_base64(output_image, "PNG"), exc |-> NoExc]

\* The handler branching on request.output_format before anything else: a
\* request for URL is refused without decoding or processing its image.
remove_background_base64_tag_first(request, behaviour, elapsed) ==
    IF request.output_format = "url"
    THEN [response |-> base64_except(image_data_for("url", NoImage).exc),
          model_exc |-> NoExc, service_exc |-> NoExc, calls |-> << >>,
          events |-> <<"output_format">>]
    ELSE
        LET decoded == base64_to_image(request.image_base64)
            removed == remove_background(decoded.image, request.post_process, behaviour, elapsed)
            data == image_data_for(request.output_format, removed.output_image)
            steps == <<"base64_to_image">> \o removed.events \o <<"output_format">>
        IN IF ~decoded.ok
           THEN [response |-> base64_except(decoded.exc),
                 model_exc |-> NoExc, service_exc |-> NoExc, calls |-> << >>,
                 events |-> <<"base64_to_image">>]
           ELSE IF ~removed.ok
                THEN [response |-> base64_except(removed.exc),
                      model_exc |-> removed.model_exc, service_exc |-> removed.exc,
                      calls |-> removed.calls,
                      events |-> <<"base64_to_image">> \o removed.events]
                ELSE IF ~data.ok
                     THEN [response |-> base64_except(data.exc),
                           model_exc |-> NoExc, service_exc |-> NoExc,
                           calls |-> removed.calls, events |-> steps]
                     ELSE [response |->
                               [status |-> HTTP_200_OK, success |-> TRUE,
                                output_format |-> request.output_format,
                                body |-> data.image_data,
                                processing_time |-> <<round_3(removed.processing_time)>>,
                                original_size |-> <<decoded.image.width, decoded.image.height>>,
                                detail |-> <<"Image traitee avec succes">>],
                           model_exc |-> NoExc, service_exc |-> NoExc,
                           calls |-> removed.calls,
                           events |-> steps \o <<"image_to_base64">>]

\* The handler, for a request that passed the schema: the response, what the
\* model and image_service.remove_background raised (if they did), the calls
\* made to the model and the order of the steps taken.
remove_background_base64(request, behaviour, elapsed) ==
    LET decoded == base64_to_image(request.image_base64)
        removed == remove_background(decoded.image, request.post_process, behaviour, elapsed)
        data == image_data_for(request.output_format, removed.output_image)
        steps == <<"base64_to_image">> \o removed.events \o <<"output_format">>
    IN IF ~decoded.ok
       THEN [response |-> base64_except(decoded.exc),
             model_exc |-> NoExc, service_exc |-> NoExc, calls |-> << >>,
             events |-> <<"base64_to_image">>]
       ELSE IF ~removed.ok
            THEN [response |-> base64_except(removed.exc),
                  model_exc |-> removed.model_exc, service_exc |-> removed.exc,
                  calls |-> removed.calls,
                  events |-> <<"base64_to_image">> \o removed.events]
            ELSE IF ~data.ok
                 THEN [response |-> base64_except(data.exc),
                       model_exc |-> NoExc, service_exc |-> NoExc,
                       calls |-> removed.calls, events |-> steps]
                 ELSE [response |->
                           [status |-> HTTP_200_OK, success |-> TRUE,
                            output_format |-> request.output_format,
                            body |-> data.image_data,
                            processing_time |-> <<round_3(removed.processing_time)>>,
                            original_size |-> <<decoded.image.width, decoded.image.height>>,
                            detail |-> <<"Image traitee avec succes">>],
                       model_exc |-> NoExc, service_exc |-> NoExc,
                       calls |-> removed.calls,
                       events |-> steps \o <<"image_to_base64">>]

(***************************************************************************)
(* POST /api/v1/remove-background-file                                     *)
(***************************************************************************)
file_except(exc) ==
    IF exc.cls \in ValueErrorClasses
    THEN HTTPException(HTTP_400_BAD_REQUEST, exc.msg)
    ELSE HTTPException(HTTP_500_INTERNAL_SERVER_ERROR,
                       <<"Erreur lors du traitement du fichier : ">> \o exc.msg)

\* The handler once file.read() has returned contents.  The Response carries
\* its media_type in the field output_format and no original_size.
remove_background_file(contents, post_process, behaviour, elapsed) ==
    LET opened == Image_open(contents)
        removed == remove_background(opened.image, post_process, behaviour, elapsed)
    IN IF ~opened.ok
       THEN [response |-> file_except(opened.exc),
             model_exc |-> NoExc, service_exc |-> NoExc, calls |-> << >>,
             events |-> <<"Image.open">>]
       ELSE IF ~removed.ok
            THEN [response |-> file_except(removed.exc),
                  model_exc |-> removed.model_exc, service_exc |-> removed.exc,
                  calls |-> removed.calls,
                  events |-> <<"Image.open">> \o removed.events]
            ELSE [response |->
                      [status |-> HTTP_200_OK, success |-> TRUE,
                       output_format |-> "image/png",
                       body |-> image_to_bytes(removed.output_image, "PNG"),
                       processing_time |-> <<round_3(removed.processing_time)>>,
                       original_size |-> <<0, 0>>,
                       detail |-> None],
                  model_exc |-> NoExc, service_exc |-> NoExc,
                  calls |-> removed.calls,
                  events |-> <<"Image.open">> \o removed.events \o <<"image_to_bytes">>]

(***************************************************************************)
(* State                                                                   *)
(***************************************************************************)
VARIABLES
    pc,          \* per request slot: "idle", "reading" (file.read() awaited), "done"
    request,     \* per request slot: the request as sent
    response,    \* per request slot: the HTTP response
    calls,       \* per request slot: the calls made to the model, in order
    events,      \* per request slot: the steps the handler took, in order
    model_exc,   \* per request slot: the exception raised by the model, or NoExc
    service_exc, \* per request slot: the exception raised by remove_background, or NoExc
    image_service, \* the shared ImageProcessingService: its configuration attributes
    image,       \* the image handed to validate_image (validator runs)
    validation   \* what validate_image returned for it

vars ==
    <<pc, request, response, calls, events, model_exc, service_exc, image_service, image,
      validation>>

reqVars == <<pc, request, response, calls, events, model_exc, service_exc>>

\* image_service = ImageProcessingService(): __init__ sets no attribute, the
\* instance has the two class attributes.
ImageProcessingService ==
    [SUPPORTED_FORMATS |-> SUPPORTED_FORMATS, MAX_IMAGE_SIZE |-> MAX_IMAGE_SIZE]

NotValidated == [is_valid |-> FALSE, error_msg |-> <<"<not called>">>]

Init ==
    /\ pc = [r \in Requests |-> "idle"]
    /\ request = [r \in Requests |-> NoRequest]
    /\ response = [r \in Requests |-> NoResponse]
    /\ calls = [r \in Requests |-> << >>]
    /\ events = [r \in Requests |-> << >>]
    /\ model_exc = [r \in Requests |-> NoExc]
    /\ service_exc = [r \in Requests |-> NoExc]
    /\ image_service = ImageProcessingService
    /\ image = NoImage
    /\ validation = NotValidated

\* A request to /remove-background: the handler is a coroutine without any
\* await, so it runs from the first to the last line in one step.
RemoveBackgroundBase64(r) ==
    /\ pc[r] = "idle"
    /\ \E wire \in Base64WireRequests, behaviour \in ModelBehaviours, elapsed \in Durations :
          LET parsed == ImageProcessRequest(wire)
              result == remove_background_base64(parsed, behaviour, elapsed)
          IN /\ request' = [request EXCEPT ![r] = wire]
             /\ IF parsed.ok
                THEN /\ response' = [response EXCEPT ![r] = result.response]
                     /\ calls' = [calls EXCEPT ![r] = result.calls]
                     /\ events' = [events EXCEPT ![r] = result.events]
                     /\ model_exc' = [model_exc EXCEPT ![r] = result.model_exc]
                     /\ service_exc' = [service_exc EXCEPT ![r] = result.service_exc]
                ELSE /\ response' = [response EXCEPT ![r] =
                            HTTPException(422, <<"Le base64 fourni est invalide">>)]
                     /\ UNCHANGED <<calls, events, model_exc, service_exc>>
    /\ pc' = [pc EXCEPT ![r] = "done"]
    /\ UNCHANGED <<image_service, image, validation>>

\* A request to /remove-background-file, up to "contents = await file.read()".
FileUpload(r) ==
    /\ pc[r] = "idle"
    /\ \E wire \in FileWireRequests : request' = [request EXCEPT ![r] = wire]
    /\ pc' = [pc EXCEPT ![r] = "reading"]
    /\ UNCHANGED <<response, calls, events, model_exc, service_exc, image_service, image,
                   validation>>

\* RemoveBackgroundFile reading the contents from an attribute of the shared
\* service that every upload overwrites: it processes the contents of any
\* request whose file.read() has returned.
RemoveBackgroundFile_shared(r) ==
    /\ pc[r] = "reading"
    /\ \E q \in DOMAIN pc, behaviour \in ModelBehaviours, elapsed \in Durations :
          LET result == remove_background_file(request[q].payload,
                                               post_process_field(request[r].post_process),
                                               behaviour, elapsed)
          IN /\ pc[q] = "reading"
             /\ response' = [response EXCEPT ![r] = result.response]
             /\ calls' = [calls EXCEPT ![r] = result.calls]
             /\ events' = [events EXCEPT ![r] = result.events]
             /\ model_exc' = [model_exc EXCEPT ![r] = result.model_exc]
             /\ service_exc' = [service_exc EXCEPT ![r] = result.service_exc]
    /\ pc' = [pc EXCEPT ![r] = "done"]
    /\ UNCHANGED <<request, image_service, image, validation>>

\* The rest of the handler, from the return of file.read().
RemoveBackgroundFile(r) ==
    /\ pc[r] = "reading"
    /\ \E behaviour \in ModelBehaviours, elapsed \in Durations :
          LET result == remove_background_file(request[r].payload,
                                               post_process_field(request[r].post_process),
                                               behaviour, elapsed)
          IN /\ response' = [response EXCEPT ![r] = result.response]
             /\ calls' = [calls EXCEPT ![r] = result.calls]
             /\ events' = [events EXCEPT ![r] = result.events]
             /\ model_exc' = [model_exc EXCEPT ![r] = result.model_exc]
             /\ service_exc' = [service_exc EXCEPT ![r] = result.service_exc]
    /\ pc' = [pc EXCEPT ![r] = "done"]
    /\ UNCHANGED <<request, image_service, image, validation>>

Next ==
    \E r \in Requests :
        \/ RemoveBackgroundBase64(r)
        \/ FileUpload(r)
        \/ RemoveBackgroundFile(r)

Spec == Init /\ [][Next]_vars

(***************************************************************************)
(* The validator alone, over every image of Images.                        *)
(***************************************************************************)
InitValidate ==
    /\ image \in Images
    /\ validation = NotValidated
    /\ pc = [r \in Requests |-> "idle"]
    /\ request = [r \in Requests |-> NoRequest]
    /\ response = [r \in Requests |-> NoResponse]
    /\ calls = [r \in Requests |-> << >>]
    /\ events = [r \in Requests |-> << >>]
    /\ model_exc = [r \in Requests |-> NoExc]
    /\ service_exc = [r \in Requests |-> NoExc]
    /\ image_service = ImageProcessingService

ValidateImage ==
    /\ validation = NotValidated
    /\ image \in Images
    /\ validation' = validate_image(image)
    /\ UNCHANGED <<image, image_service, reqVars>>

NextValidate == ValidateImage

SpecValidate == InitValidate /\ [][NextValidate]_vars

(***************************************************************************)
(* Several requests in flight.  The event loop runs one coroutine at a     *)
(* time and switches only at an await, so the steps that interleave are    *)
(* the actions of Spec; the requests are a subset of those of Spec: no     *)
(* image, a valid image or a too small one; tag left out or url;           *)
(* post_process left out or true.                                          *)
(***************************************************************************)
ConcurrentImages ==
    {[width |-> 5, height |-> 5, format |-> "PNG"],
     [width |-> 100, height |-> 100, format |-> "PNG"]}

ConcurrentContents == {GarbageBytes} \cup {image_save(i, i.format) : i \in ConcurrentImages}

ConcurrentRequests ==
    {w \in Base64WireRequests \cup FileWireRequests :
        /\ [w.payload EXCEPT !.encoding = "raw"] \in ConcurrentContents
        /\ w.payload.encoding \in {"raw", "base64"}
        /\ w.output_format \in {"absent", "url"}
        /\ w.post_process \in {"absent", "true"}}

InitConcurrent ==
    /\ pc = [r \in Concurrent |-> "idle"]
    /\ request = [r \in Concurrent |-> NoRequest]
    /\ response = [r \in Concurrent |-> NoResponse]
    /\ calls = [r \in Concurrent |-> << >>]
    /\ events = [r \in Concurrent |-> << >>]
    /\ model_exc = [r \in Concurrent |-> NoExc]
    /\ service_exc = [r \in Concurrent |-> NoExc]
    /\ image_service = ImageProcessingService
    /\ image = NoImage
    /\ validation = NotValidated

NextConcurrent ==
    \E r \in Concurrent :
        \/ RemoveBackgroundBase64(r) /\ request'[r] \in ConcurrentRequests
        \/ FileUpload(r) /\ request'[r] \in ConcurrentRequests
        \/ RemoveBackgroundFile(r)

SpecConcurrent == InitConcurrent /\ [][NextConcurrent]_vars

(***************************************************************************)
(* Vocabulary of the properties                                            *)
(***************************************************************************)
Tokens(msg) == {msg[i] : i \in DOMAIN msg}

TooSmallReason(msg) == msg = <<"Image trop petite (minimum 10x10 pixels)">>

TooLargeReason(msg) == Len(msg) > 0 /\ msg[1] = "Image trop grande ("

\* The three rules of the validator as the specification words them.
FormatAccepted(img) == img.format = NoneFormat \/ img.format \in {"PNG", "JPEG", "JPG", "WEBP", "BMP"}

WithinLimit(img) == img.width * img.height <= 16777216

BigEnough(img) == img.width >= 10 /\ img.height >= 10

Acceptable(img) == FormatAccepted(img) /\ WithinLimit(img) /\ BigEnough(img)

Validated == validation # NotValidated

Done(r) == pc[r] = "done"

OnBase64(r) == request[r].endpoint = "remove-background"

OnFile(r) == request[r].endpoint = "remove-background-file"

\* The payload of the request decodes into an image.
Decodable(r) == request[r].payload.kind = "image" /\ request[r].payload.encoding # "malformed"

\* The image the payload of the request encodes.
SentImage(r) ==
    [width |-> request[r].payload.width, height |-> request[r].payload.height,
     format |-> request[r].payload.format]

ModelRaised(r) == model_exc[r] # NoExc

ClientError(status) == status \in 400..499

(***************************************************************************)
(* Properties of validate_image (SpecValidate)                             *)
(***************************************************************************)

\* C6, as stated: every image with a dimension below 10 fails validation with
\* the "too small" reason, whatever the other dimension is (read for images
\* whose format is supported or absent, the reading most favourable to it).
C6_TooSmallWhateverTheOtherSide ==
    (Validated /\ FormatAccepted(image) /\ (image.width < 10 \/ image.height < 10))
        => (~validation.is_valid /\ TooSmallReason(validation.error_msg))

\* C6, amended: an image with a dimension below 10 always fails validation;
\* the reason is "too small" exactly when its format is supported or absent
\* and width x height is within the limit, and it is "too large" when the
\* format is supported or absent and width x height exceeds the limit.
C6_TooSmallWithinLimit ==
    (Validated /\ (image.width < 10 \/ image.height < 10))
        => /\ ~validation.is_valid
           /\ TooSmallReason(validation.error_msg) <=> (FormatAccepted(image) /\ WithinLimit(image))
           /\ (FormatAccepted(image) /\ ~WithinLimit(image))
                 => TooLargeReason(validation.error_msg)

C6_Witness ==
    /\ Validated
    /\ image.width = 9 /\ image.height = LongSide /\ image.format = "PNG"
    /\ TooLargeReason(validation.error_msg)

\* C7: validate_image passes exactly when the format is absent or supported,
\* width x height <= 16,777,216 and both dimensions are >= 10; a pass has no
\* reason and a failure has a non-empty one.
C7_PassesExactlyWhenAcceptable ==
    Validated
        => /\ validation.is_valid <=> Acceptable(image)
           /\ validation.is_valid => validation.error_msg = None
           /\ ~validation.is_valid => Len(validation.error_msg) > 0

C7_Witness ==
    /\ Validated
    /\ image.width = 4096 /\ image.height = 4096 /\ image.format = NoneFormat
    /\ validation.is_valid

C1_UrlIsNotImplemented ==
    \A r \in Requests :
        (/\ Done(r) /\ OnBase64(r)
         /\ request[r].output_format = "url"
         /\ Decodable(r) /\ Acceptable(SentImage(r))
         /\ ~ModelRaised(r))
            => response[r].status = 501

\* C2: on both entry points a payload that does not decode into an image ends
\* the request with a client error, and the model is not called.
C2_UndecodableIsClientError ==
    \A r \in Requests :
        (Done(r) /\ ~Decodable(r))
            => (ClientError(response[r].status) /\ calls[r] = << >>)

\* C3: on both entry points an image that fails the validator ends the
\* request with 400 and the validator's message, without any call to the
\* model; and whenever the model is called, validation came before.
C3_InvalidImageIsRejectedBeforeTheModel ==
    \A r \in Requests :
        /\ (Done(r) /\ Decodable(r) /\ ~Acceptable(SentImage(r)))
              => /\ response[r].status = 400
                 /\ ~response[r].success
                 /\ response[r].detail = validate_image(SentImage(r)).error_msg
                 /\ Len(response[r].detail) > 0
                 /\ calls[r] = << >>
                 /\ "remove" \notin Tokens(events[r])
        /\ \A i \in DOMAIN events[r] :
              events[r][i] = "remove"
                  => \E j \in 1..(i - 1) : events[r][j] = "validate_image"

C3_Witness ==
    \E r \in Requests :
        /\ Done(r) /\ OnFile(r)
        /\ SentImage(r) = [width |-> 5, height |-> 5, format |-> "PNG"]
        /\ response[r].status = 400
        /\ TooSmallReason(response[r].detail)

\* C4: whatever the model raises, a ValueError included, remove_background
\* raises a plain Exception whose message wraps the model's, and the request
\* ends with 500 whose detail carries it, not with 400.
C4_ModelFailureIsServerFault ==
    \A r \in Requests :
        (Done(r) /\ ModelRaised(r))
            => /\ service_exc[r].cls = "Exception"
               /\ service_exc[r].msg = <<"Echec du traitement d'image : ">> \o model_exc[r].msg
               /\ response[r].status = 500
               /\ ~response[r].success
               /\ \E k \in DOMAIN response[r].detail :
                     SubSeq(response[r].detail, k, Len(response[r].detail)) = service_exc[r].msg

C4_Witness ==
    \E r \in Requests :
        /\ Done(r)
        /\ model_exc[r].cls = "ValueError"
        /\ response[r].status = 500

C9_ModelParameters ==
    \A r \in Requests :
        \A i \in DOMAIN calls[r] :
            /\ calls[r][i].image = SentImage(r)
            /\ request[r].post_process \in {"absent", "false"}
                  => (calls[r][i].flags = {} /\ calls[r][i].params = {})
            /\ request[r].post_process = "true"
                  => /\ calls[r][i].flags = {"alpha_matting"}
                     /\ calls[r][i].params =
                           {<<"alpha_matting_foreground_threshold", 240>>,
                            <<"alpha_matting_background_threshold", 10>>,
                            <<"alpha_matting_erode_size", 10>>}

C9_Witness ==
    \E r \in Requests :
        /\ Done(r) /\ OnFile(r)
        /\ request[r].post_process = "true"
        /\ Len(calls[r]) = 1
        /\ calls[r][1].flags = {"alpha_matting"}

\* C10: a request calls the model at most once; when that call raises, the
\* call is the last step taken and the request ends with an error response
\* that holds no image data.
C10_NoRetry ==
    \A r \in Requests :
        /\ Len(calls[r]) <= 1
        /\ ModelRaised(r)
              => /\ Done(r)
                 /\ Len(calls[r]) = 1
                 /\ events[r][Len(events[r])] = "remove"
                 /\ Cardinality({i \in DOMAIN events[r] : events[r][i] = "remove"}) = 1
                 /\ response[r].status >= 400
                 /\ ~response[r].success
                 /\ response[r].body = NoData

C10_Witness ==
    \E r \in Requests :
        /\ Done(r) /\ ModelRaised(r)
        /\ request[r].post_process = "true"
        /\ response[r].body = NoData

(***************************************************************************)
(* Properties of requests in flight together (SpecConcurrent)              *)
(***************************************************************************)
\* What a request must end with, read off its own content and what the model
\* did when this request called it.
OutcomeKind(r) ==
    IF OnBase64(r) /\ request[r].payload.encoding = "malformed" THEN "rejected"
    ELSE IF ~Decodable(r) THEN "undecodable"
    ELSE IF ~Acceptable(SentImage(r)) THEN "invalid"
    ELSE IF ModelRaised(r) THEN "processing"
    ELSE IF OnBase64(r) /\ request[r].output_format = "url" THEN "url"
    ELSE "success"

OwnOutcome(r) ==
    Done(r)
        => /\ OutcomeKind(r) = "success"
                 => /\ response[r].success /\ response[r].status = 200
                    /\ response[r].body.kind = "image"
                    /\ response[r].body.width = SentImage(r).width
                    /\ response[r].body.height = SentImage(r).height
                    /\ OnBase64(r)
                          => response[r].original_size = <<SentImage(r).width, SentImage(r).height>>
                    /\ Len(calls[r]) = 1 /\ calls[r][1].image = SentImage(r)
           /\ OutcomeKind(r) # "success"
                 => (~response[r].success /\ response[r].status >= 400 /\ response[r].body = NoData)
           /\ OutcomeKind(r) \in {"rejected", "undecodable", "invalid"} => calls[r] = << >>
           /\ OutcomeKind(r) = "invalid"
                 => (response[r].status = 400 /\ TooSmallReason(response[r].detail))
           /\ OutcomeKind(r) = "processing" => response[r].status = 500

\* Two requests with the same content, for which the model did the same, end
\* the same way (the duration apart).
SameOutcome(r1, r2) ==
    (Done(r1) /\ Done(r2) /\ request[r1] = request[r2] /\ model_exc[r1] = model_exc[r2])
        => /\ [response[r1] EXCEPT !.processing_time = << >>]
                 = [response[r2] EXCEPT !.processing_time = << >>]
           /\ calls[r1] = calls[r2]
           /\ events[r1] = events[r2]

\* A step leaves alone every request whose handler did not move.
OthersUntouched ==
    \A r \in DOMAIN pc :
        pc'[r] = pc[r]
            => /\ request'[r] = request[r] /\ response'[r] = response[r]
               /\ calls'[r] = calls[r] /\ events'[r] = events[r]
               /\ model_exc'[r] = model_exc[r] /\ service_exc'[r] = service_exc[r]

\* C11: under every interleaving of the requests that share image_service,
\* the outcome of a request is decided by its own content and flag (and by
\* what the model did for it); no step of one request changes anything of
\* another; the configuration of the shared service keeps its initial value.
C11_RequestsAreIndependent ==
    /\ [](/\ \A r \in DOMAIN pc : OwnOutcome(r)
          /\ \A r1, r2 \in DOMAIN pc : SameOutcome(r1, r2)
          /\ image_service =
                [SUPPORTED_FORMATS |-> {"PNG", "JPEG", "JPG", "WEBP", "BMP"},
                 MAX_IMAGE_SIZE |-> 16777216])
    /\ [][OthersUntouched]_vars

\* A request has ended on its own content (no image: 500) while another
\* request, holding a valid image, is suspended in file.read().
C11_Witness ==
    \E r1, r2 \in DOMAIN pc :
        /\ r1 # r2
        /\ Done(r1) /\ OnFile(r1) /\ OutcomeKind(r1) = "undecodable"
        /\ response[r1].status = 500
        /\ pc[r2] = "reading" /\ Decodable(r2) /\ Acceptable(SentImage(r2))

(***************************************************************************)
(* Properties of the order of the steps of a request (Spec)                *)
(***************************************************************************)
At(r, step) == {i \in DOMAIN events[r] : events[r][i] = step}

Encoders == {"image_to_base64", "image_to_bytes"}

\* C12: the clock is read for start_time only after validation has passed,
\* and read again right after the model returned, before any encoding: the
\* two readings enclose the call to the model and nothing else.  A response
\* reports a duration only then; a validation failure reads no clock and a
\* model failure reads it once, and neither reports a duration.
C12_TimerBracketsTheModel ==
    \A r \in Requests :
        /\ At(r, "time.time") # {}
              => /\ Decodable(r) /\ Acceptable(SentImage(r))
                 /\ \A t \in At(r, "time.time") : \E v \in At(r, "validate_image") : v < t
        /\ \A i \in At(r, "remove") :
              /\ i > 1 /\ events[r][i - 1] = "time.time"
              /\ ~ModelRaised(r)
                    => (i < Len(events[r]) /\ events[r][i + 1] = "time.time")
        /\ \A t \in At(r, "time.time") :
              \/ (t < Len(events[r]) /\ events[r][t + 1] = "remove")
              \/ (t > 1 /\ events[r][t - 1] = "remove")
        /\ \A c \in DOMAIN events[r] :
              events[r][c] \in Encoders => \A t \in At(r, "time.time") : t < c
        /\ response[r].processing_time # << >>
              => /\ response[r].success
                 /\ Cardinality(At(r, "time.time")) = 2
                 /\ Cardinality(At(r, "remove")) = 1
        /\ response[r].success => Len(response[r].processing_time) = 1
        /\ (Done(r) /\ Decodable(r) /\ ~Acceptable(SentImage(r)))
              => (At(r, "time.time") = {} /\ response[r].processing_time = << >>)
        /\ ModelRaised(r)
              => (Cardinality(At(r, "time.time")) = 1 /\ response[r].processing_time = << >>)

C12_Witness ==
    \E r \in Requests :
        /\ Done(r) /\ OnBase64(r) /\ response[r].success
        /\ events[r] = <<"base64_to_image", "validate_image", "time.time", "remove",
                         "time.time", "output_format", "image_to_base64">>
        /\ response[r].processing_time = <<2>>

\* C13: on /remove-background the output tag is looked at only once the
\* image has been decoded and validated and the model has returned.  So a
\* request for url with a valid image calls the model exactly once and then
\* fails; with a payload that is no image, or an image the validator refuses,
\* it ends with the decoding or validation error, the model is not called and
\* the tag is never looked at.
C13_TagExaminedLast ==
    \A r \in Requests :
        /\ \A i \in At(r, "output_format") :
              /\ \E d \in At(r, "base64_to_image") : d < i
              /\ \E v \in At(r, "validate_image") : v < i
              /\ \E m \in At(r, "remove") : m < i
              /\ \A t \in At(r, "time.time") : t < i
              /\ ~ModelRaised(r)
        /\ (Done(r) /\ OnBase64(r) /\ request[r].output_format = "url")
              => /\ (Decodable(r) /\ Acceptable(SentImage(r)))
                       => /\ Len(calls[r]) = 1
                          /\ Cardinality(At(r, "remove")) = 1
                          /\ ~response[r].success
                          /\ response[r].status >= 400
                          /\ response[r].body = NoData
                 /\ ~Decodable(r)
                       => /\ calls[r] = << >>
                          /\ At(r, "output_format") = {}
                          /\ response[r].status \in {400, 422}
                          /\ response[r].detail[1] \in
                                {"Impossible de convertir le base64 en image : ",
                                 "Le base64 fourni est invalide"}
                          /\ "501" \notin Tokens(response[r].detail)
                 /\ (Decodable(r) /\ ~Acceptable(SentImage(r)))
                       => /\ calls[r] = << >>
                          /\ At(r, "output_format") = {}
                          /\ response[r].status = 400
                          /\ response[r].detail = validate_image(SentImage(r)).error_msg
                          /\ "501" \notin Tokens(response[r].detail)

C13_Witness ==
    \E r \in Requests :
        /\ Done(r) /\ OnBase64(r) /\ request[r].output_format = "url"
        /\ Decodable(r) /\ Acceptable(SentImage(r))
        /\ ~ModelRaised(r)
        /\ Len(calls[r]) = 1
        /\ events[r][Len(events[r])] = "output_format"
        /\ ~response[r].success

====
